---- MODULE Spec2Model ----
(***************************************************************************)
(* A model of the SQL assistant (src/app.py): the read-only gate           *)
(* is_select_only, the row limiter add_limit, the table-name normalizer    *)
(* normalize_table_names, the tolerant reply parser of ask_llm, and the    *)
(* Connect / Run handlers of the page script.                              *)
(*                                                                         *)
(* Text is modelled as a sequence of one-character strings, so that        *)
(* upper(), strip(), startswith(), substring search and the regular        *)
(* expression repairs are computed on characters as the code does.         *)
(***************************************************************************)
EXTENDS Integers, Sequences, FiniteSets, TLC

\* ------------------------------------------------------------------------
\* Characters and Python str operations
\* ------------------------------------------------------------------------
LowerLetters == <<"a","b","c","d","e","f","g","h","i","j","k","l","m",
                  "n","o","p","q","r","s","t","u","v","w","x","y","z">>
UpperLetters == <<"A","B","C","D","E","F","G","H","I","J","K","L","M",
                  "N","O","P","Q","R","S","T","U","V","W","X","Y","Z">>
Digits == <<"0","1","2","3","4","5","6","7","8","9">>

Range(f) == {f[i] : i \in DOMAIN f}

IsLetter(c) == c \in Range(LowerLetters) \cup Range(UpperLetters)
IsDigit(c) == c \in Range(Digits)
\* \w of the regular expressions: letters, digits, underscore
IsWordChar(c) == IsLetter(c) \/ IsDigit(c) \/ c = "_"
\* str.strip() / \s : space, tab, newline, carriage return
IsSpace(c) == c \in {" ", "\t", "\n", "\r"}

\* str.upper() on one character
UpperChar(c) ==
  IF c \in Range(LowerLetters)
    THEN UpperLetters[CHOOSE i \in DOMAIN LowerLetters : LowerLetters[i] = c]
    ELSE c

\* str.lower() on one character
LowerChar(c) ==
  IF c \in Range(UpperLetters)
    THEN LowerLetters[CHOOSE i \in DOMAIN UpperLetters : UpperLetters[i] = c]
    ELSE c

\* str.upper()
Upper(s) == [i \in DOMAIN s |-> UpperChar(s[i])]

\* str.lower()
Lower(s) == [i \in DOMAIN s |-> LowerChar(s[i])]

\* s[i-1:] of Python, with 1-based i
Drop(s, i) == SubSeq(s, i, Len(s))

\* str.lstrip()
RECURSIVE LStrip(_)
LStrip(s) == IF s # <<>> /\ IsSpace(Head(s)) THEN LStrip(Tail(s)) ELSE s

\* str.rstrip()
RECURSIVE RStrip(_)
RStrip(s) ==
  IF s # <<>> /\ IsSpace(s[Len(s)]) THEN RStrip(SubSeq(s, 1, Len(s) - 1)) ELSE s

\* str.strip()
Strip(s) == RStrip(LStrip(s))

\* str.startswith(p)
StartsWith(s, p) == Len(s) >= Len(p) /\ SubSeq(s, 1, Len(p)) = p

\* whether p occurs in s at (1-based) position i
MatchAt(s, p, i) == i >= 1 /\ i + Len(p) - 1 <= Len(s) /\ SubSeq(s, i, i + Len(p) - 1) = p

\* p in s
Contains(s, p) == \E i \in 1..(Len(s) + 1) : MatchAt(s, p, i)

\* concatenation of a sequence of texts
RECURSIVE Join(_)
Join(ss) == IF ss = <<>> THEN <<>> ELSE Head(ss) \o Join(Tail(ss))

\* str(n) for an integer n
RECURSIVE NatToChars(_)
NatToChars(n) ==
  IF n < 10 THEN <<Digits[n + 1]>> ELSE NatToChars(n \div 10) \o <<Digits[(n % 10) + 1]>>

IntToChars(n) == IF n < 0 THEN <<"-">> \o NatToChars(0 - n) ELSE NatToChars(n)

\* ------------------------------------------------------------------------
\* sqlparse as app.py uses it: lexer, statement splitter, token tree.
\* The lexer covers the character classes that occur in the texts of this
\* model: word characters, whitespace, quotes, * ; , ( ) and digits.
\* ------------------------------------------------------------------------
\* texts used as program constants
W_SELECT == <<"S","E","L","E","C","T">>
W_WITH == <<"W","I","T","H">>
W_AS == <<"A","S">>
W_LIMIT == <<"L","I","M","I","T">>
W_FETCH == <<"F","E","T","C","H">>
W_TOP == <<"T","O","P">>
W_DROP == <<"D","R","O","P">>
W_ALTER == <<"A","L","T","E","R">>
W_CREATE == <<"C","R","E","A","T","E">>

\* the set `forbidden` of is_select_only
forbidden ==
  {<<"I","N","S","E","R","T">>, <<"U","P","D","A","T","E">>, <<"D","E","L","E","T","E">>,
   W_DROP, W_ALTER, <<"T","R","U","N","C","A","T","E">>, W_CREATE,
   <<"R","E","P","L","A","C","E">>, <<"G","R","A","N","T">>, <<"R","E","V","O","K","E">>,
   <<"M","E","R","G","E">>, <<"C","A","L","L">>, <<"E","X","E","C">>,
   <<"B","E","G","I","N">>, <<"C","O","M","M","I","T">>}

\* words the lexer types as keywords (is_keyword); every other word is a Name
SqlKeywords ==
  forbidden \cup {W_SELECT, W_WITH, <<"F","R","O","M">>, W_AS, W_LIMIT, W_FETCH, W_TOP,
                  <<"T","A","B","L","E">>, <<"W","H","E","R","E">>}

\* the least member of the non-empty set of positions ps
Least(ps) == CHOOSE p \in ps : \A q \in ps : p <= q

\* the greatest member of the non-empty set of positions ps
Greatest(ps) == CHOOSE p \in ps : \A q \in ps : q <= p

\* a leaf token (sqlparse.sql.Token) and a group (sqlparse.sql.TokenList)
Tok(ttype, value) == [cls |-> "Token", ttype |-> ttype, value |-> value, tokens |-> <<>>]

\* index of the quote q that closes the literal whose body starts at p, or 0:
\* the pattern q(qq|[^q])*q, a doubled quote being taken as an escape
\* when the rest still closes
RECURSIVE QuoteClose(_, _, _)
QuoteClose(s, p, q) ==
  IF p > Len(s) THEN 0
  ELSE IF s[p] # q THEN QuoteClose(s, p + 1, q)
  ELSE IF p + 1 <= Len(s) /\ s[p + 1] = q /\ QuoteClose(s, p + 2, q) # 0
    THEN QuoteClose(s, p + 2, q)
    ELSE p

\* the type the lexer gives the word w
WordType(w) ==
  IF \A i \in DOMAIN w : IsDigit(w[i]) THEN "Number"
  ELSE IF Upper(w) = W_SELECT THEN "DML"
  ELSE IF Upper(w) = W_WITH THEN "CTE"
  ELSE IF Upper(w) \in {W_CREATE, W_DROP, W_ALTER} THEN "DDL"
  ELSE IF Upper(w) \in SqlKeywords THEN "Keyword"
  ELSE "Name"

\* the quoted literals of s from position i on, as pairs <<first, last>>: a
\* quote outside a literal opens one when it closes, else it is a token of its own
RECURSIVE Literals(_, _)
Literals(s, i) ==
  LET qs == {p \in i..Len(s) : s[p] \in {"'", "\""}} IN
  IF qs = {} THEN {}
  ELSE IF QuoteClose(s, Least(qs) + 1, s[Least(qs)]) = 0 THEN Literals(s, Least(qs) + 1)
  ELSE {<<Least(qs), QuoteClose(s, Least(qs) + 1, s[Least(qs)])>>}
         \cup Literals(s, QuoteClose(s, Least(qs) + 1, s[Least(qs)]) + 1)

\* the positions where a lexeme of s starts: outside the literals, a character
\* that does not continue a word
TokStarts(s) ==
  LET lits == Literals(s, 1) IN
  {p \in DOMAIN s :
     /\ ~\E l \in lits : l[1] < p /\ p <= l[2]
     /\ \/ ~IsWordChar(s[p])
        \/ p = 1
        \/ ~IsWordChar(s[p - 1])}

\* last index of the lexeme that starts at i, the lexemes starting at starts
TokEnd(s, starts, i) ==
  IF \E p \in starts : p > i THEN Least({p \in starts : p > i}) - 1 ELSE Len(s)

\* the token the lexer makes of the lexeme s[i..j]
TokAt(s, i, j) ==
  LET c == s[i]
      w == SubSeq(s, i, j)
  IN IF c \in {"\n", "\r"} THEN Tok("Newline", w)
     ELSE IF IsSpace(c) THEN Tok("Whitespace", w)
     ELSE IF c = "*" THEN Tok("Wildcard", w)
     ELSE IF IsWordChar(c) THEN Tok(WordType(w), w)
     ELSE IF c \in {"'", "\""}
       THEN IF j = i THEN Tok("Error", w)
            ELSE Tok(IF c = "'" THEN "String" ELSE "Symbol", w)
     ELSE IF c \in {";", ":", "(", ")", "[", "]", ",", "."} THEN Tok("Punctuation", w)
     ELSE Tok("Error", w)

\* sqlparse.lexer.tokenize: the leaf tokens of s, in the order of their starts
Lex(s) ==
  LET starts == TokStarts(s) IN
  [k \in 1..Cardinality(starts) |->
     LET i == CHOOSE p \in starts : Cardinality({q \in starts : q <= p}) = k
     IN TokAt(s, i, TokEnd(s, starts, i))]

\* Token.is_whitespace
IsWs(t) == t.cls = "Token" /\ t.ttype \in {"Whitespace", "Newline"}

\* StatementSplitter: the parenthesis level after the token at position i
SplitLevel(toks, i) ==
  Cardinality({k \in 1..i : toks[k].ttype = "Punctuation" /\ toks[k].value = <<"(">>})
    - Cardinality({k \in 1..i : toks[k].ttype = "Punctuation" /\ toks[k].value = <<")">>})

\* StatementSplitter: the number of leading tokens of toks that form the first
\* statement. A ';' at parenthesis level <= 0 ends it; the Whitespace tokens
\* (not Newline) that follow the ';' still belong to it.
FirstStatementLen(toks) ==
  LET ends == {i \in DOMAIN toks :
                 toks[i].ttype = "Punctuation" /\ toks[i].value = <<";">> /\ SplitLevel(toks, i) <= 0}
  IN IF ends = {} THEN Len(toks)
     ELSE LET rest == {j \in (Least(ends) + 1)..Len(toks) : toks[j].ttype # "Whitespace"}
          IN IF rest = {} THEN Len(toks) ELSE Least(rest) - 1

\* the leaf tokens of parsed[0], or <<>> when sqlparse.parse(sql) is empty
\* (no token, or whitespace only)
FirstStatementTokens(sql) ==
  LET toks == Lex(sql) IN
  IF \A i \in DOMAIN toks : IsWs(toks[i]) THEN <<>>
  ELSE SubSeq(toks, 1, FirstStatementLen(toks))

\* ------------------------------------------------------------------------
\* sqlparse token tree: the grouping passes that act on the statements of
\* this model (parentheses, functions, identifiers, AS, aliases, lists)
\* ------------------------------------------------------------------------
\* TokenList.__str__: the values of the leaf tokens (flatten()), joined; the
\* value attribute of a group is not read
RECURSIVE Str(_)
Str(n) ==
  IF n.cls = "Token" THEN n.value ELSE Join([i \in DOMAIN n.tokens |-> Str(n.tokens[i])])

\* a new group: TokenList.__init__ sets value to str(self)
Group(cls, toks) ==
  [cls |-> cls, ttype |-> "none", tokens |-> toks,
   value |-> Join([i \in DOMAIN toks |-> Str(toks[i])])]

\* TokenList.group_tokens(cls, from, to, extend=True) on the segment seg: a
\* leading token of class cls absorbs the rest, else a new group wraps seg
GroupTokens(cls, seg) ==
  IF seg[1].cls = cls
    THEN [seg[1] EXCEPT !.tokens = @ \o Tail(seg), !.value = Join([i \in DOMAIN seg |-> Str(seg[i])])]
    ELSE Group(cls, seg)

\* toks with the tokens from..to replaced by the one token g
Splice(toks, from, to, g) == SubSeq(toks, 1, from - 1) \o <<g>> \o SubSeq(toks, to + 1, Len(toks))

\* TokenList.token_next(i): index of the next token that is not whitespace, or 0
NextNonWs(toks, i) ==
  LET ps == {p \in (i + 1)..Len(toks) : ~IsWs(toks[p])} IN IF ps = {} THEN 0 ELSE Least(ps)

\* TokenList.token_prev(i): index of the previous token that is not whitespace, or 0
PrevNonWs(toks, i) ==
  LET ps == {p \in 1..(i - 1) : ~IsWs(toks[p])} IN IF ps = {} THEN 0 ELSE Greatest(ps)

IsPunct(t, c) == t.cls = "Token" /\ t.ttype = "Punctuation" /\ t.value = <<c>>

\* Token.is_keyword
IsKeyword(t) == t.cls = "Token" /\ t.ttype \in {"Keyword", "DML", "DDL", "CTE"}

\* grouping._group_matching for Parenthesis: the first ')' that has a '(' before
\* it closes the last such '('; an unmatched ')' is left alone
RECURSIVE ParenScan(_)
ParenScan(toks) ==
  LET closes == {c \in DOMAIN toks :
                   IsPunct(toks[c], ")") /\ \E o \in 1..(c - 1) : IsPunct(toks[o], "(")}
  IN IF closes = {} THEN toks
     ELSE LET c == Least(closes)
              o == Greatest({k \in 1..(c - 1) : IsPunct(toks[k], "(")})
          IN ParenScan(Splice(toks, o, c, Group("Parenthesis", SubSeq(toks, o, c))))

group_parenthesis(toks) == ParenScan(toks)

\* grouping.group_functions: a Name followed by a Parenthesis
FuncMatch(toks, i) ==
  /\ toks[i].cls = "Token" /\ toks[i].ttype = "Name"
  /\ NextNonWs(toks, i) # 0 /\ toks[NextNonWs(toks, i)].cls = "Parenthesis"

RECURSIVE FuncScan(_, _)
FuncScan(toks, i) ==
  LET ps == {k \in i..Len(toks) : FuncMatch(toks, k)} IN
  IF ps = {} THEN toks
  ELSE FuncScan(Splice(toks, Least(ps), NextNonWs(toks, Least(ps)),
                       Group("Function", SubSeq(toks, Least(ps), NextNonWs(toks, Least(ps))))),
                Least(ps) + 1)

RECURSIVE group_functions(_)
group_functions(toks) ==
  FuncScan([i \in DOMAIN toks |->
              IF toks[i].cls \notin {"Token", "Function"}
                THEN [toks[i] EXCEPT !.tokens = group_functions(@)] ELSE toks[i]], 1)

\* grouping.group_identifier: every Name or quoted symbol becomes an Identifier
RECURSIVE group_identifier(_)
group_identifier(toks) ==
  [i \in DOMAIN toks |->
     IF toks[i].cls = "Token"
       THEN IF toks[i].ttype \in {"Name", "Symbol"} THEN Group("Identifier", <<toks[i]>>) ELSE toks[i]
     ELSE IF toks[i].cls = "Identifier" THEN toks[i]
     ELSE [toks[i] EXCEPT !.tokens = group_identifier(@)]]

\* grouping.group_as: <prev> AS <next> becomes one Identifier, prev and next
\* being the neighbours of AS that are not whitespace
AsMatch(toks, i) ==
  LET p == PrevNonWs(toks, i)
      n == NextNonWs(toks, i)
  IN /\ IsKeyword(toks[i]) /\ Upper(toks[i].value) = W_AS
     /\ p # 0 /\ ~IsKeyword(toks[p])
     /\ n # 0 /\ ~(toks[n].cls = "Token" /\ toks[n].ttype \in {"DML", "DDL", "CTE"})

RECURSIVE AsScan(_, _)
AsScan(toks, i) ==
  LET ps == {k \in i..Len(toks) : AsMatch(toks, k)} IN
  IF ps = {} THEN toks
  ELSE LET p == PrevNonWs(toks, Least(ps))
           n == NextNonWs(toks, Least(ps))
       IN AsScan(Splice(toks, p, n, GroupTokens("Identifier", SubSeq(toks, p, n))), p + 1)

\* every group that is no Identifier is processed as well
RECURSIVE group_as(_)
group_as(toks) ==
  AsScan([i \in DOMAIN toks |->
            IF toks[i].cls \notin {"Token", "Identifier"}
              THEN [toks[i] EXCEPT !.tokens = group_as(@)] ELSE toks[i]], 1)

\* grouping.group_aliased: a Parenthesis, Function or Identifier (or number)
\* followed by an Identifier becomes one Identifier
AliasMatch(toks, i) ==
  /\ \/ toks[i].cls \in {"Parenthesis", "Function", "Identifier"}
     \/ (toks[i].cls = "Token" /\ toks[i].ttype = "Number")
  /\ NextNonWs(toks, i) # 0 /\ toks[NextNonWs(toks, i)].cls = "Identifier"

RECURSIVE AliasScan(_, _)
AliasScan(toks, i) ==
  LET ps == {k \in i..Len(toks) : AliasMatch(toks, k)} IN
  IF ps = {} THEN toks
  ELSE LET k == Least(ps)
           n == NextNonWs(toks, k)
       IN AliasScan(Splice(toks, k, n, GroupTokens("Identifier", SubSeq(toks, k, n))), k + 1)

RECURSIVE group_aliased(_)
group_aliased(toks) ==
  AliasScan([i \in DOMAIN toks |->
               IF toks[i].cls \notin {"Token", "Identifier"}
                 THEN [toks[i] EXCEPT !.tokens = group_aliased(@)] ELSE toks[i]], 1)

\* what may stand on either side of a comma of an identifier list
ListMember(t) ==
  \/ t.cls \in {"Function", "Identifier", "IdentifierList"}
  \/ t.cls = "Token" /\ t.ttype \in {"Number", "String", "Symbol", "Name", "Wildcard",
                                     "Keyword", "DML", "DDL", "CTE"}

\* grouping.group_identifier_list: <prev> , <next> becomes one IdentifierList
ListMatch(toks, i) ==
  LET p == PrevNonWs(toks, i)
      n == NextNonWs(toks, i)
  IN IsPunct(toks[i], ",") /\ p # 0 /\ ListMember(toks[p]) /\ n # 0 /\ ListMember(toks[n])

RECURSIVE ListScan(_, _)
ListScan(toks, i) ==
  LET ps == {k \in i..Len(toks) : ListMatch(toks, k)} IN
  IF ps = {} THEN toks
  ELSE LET p == PrevNonWs(toks, Least(ps))
           n == NextNonWs(toks, Least(ps))
       IN ListScan(Splice(toks, p, n, GroupTokens("IdentifierList", SubSeq(toks, p, n))), p + 1)

\* every group that is no IdentifierList is processed as well
RECURSIVE group_identifier_list(_)
group_identifier_list(toks) ==
  ListScan([i \in DOMAIN toks |->
              IF toks[i].cls \notin {"Token", "IdentifierList"}
                THEN [toks[i] EXCEPT !.tokens = group_identifier_list(@)] ELSE toks[i]], 1)

\* grouping.group on the leaf tokens of one statement
GroupStatement(toks) ==
  Group("Statement",
        group_identifier_list(group_aliased(group_as(group_identifier(
          group_functions(group_parenthesis(toks)))))))

\* sqlparse.utils.remove_quotes (the back quote is not a character of the model)
RemoveQuotes(v) ==
  IF Len(v) >= 1 /\ v[1] \in {"\"", "'"} /\ v[1] = v[Len(v)]
    THEN SubSeq(v, 2, Len(v) - 1) ELSE v

Reverse(ts) == [i \in DOMAIN ts |-> ts[Len(ts) + 1 - i]]

\* the least of the token positions hits, or 0 when there is none
FirstIndex(hits) == IF hits = {} THEN 0 ELSE Least(hits)

RECURSIVE FirstName(_, _, _, _)
RECURSIVE get_real_name(_)
RECURSIVE get_alias(_)
RECURSIVE get_name(_)

\* TokenList._get_first_name over the tokens ts from position k on; <<>> is None
FirstName(ts, k, keywords, real_name) ==
  IF k > Len(ts) THEN <<>>
  ELSE LET t == ts[k] IN
    IF t.cls = "Token"
       /\ t.ttype \in ({"Name", "Wildcard", "Symbol"} \cup (IF keywords THEN {"Keyword"} ELSE {}))
      THEN RemoveQuotes(t.value)
    ELSE IF t.cls \in {"Identifier", "Function"}
      THEN IF real_name THEN get_real_name(t) ELSE get_name(t)
    ELSE FirstName(ts, k + 1, keywords, real_name)

\* NameAliasMixin.get_real_name
get_real_name(n) ==
  LET IsDot(t) == IsPunct(t, ".")
      dot == FirstIndex({i \in DOMAIN n.tokens : IsDot(n.tokens[i])})
  IN FirstName(IF dot > 1 THEN Drop(n.tokens, dot) ELSE n.tokens, 1, FALSE, TRUE)

\* NameAliasMixin.get_alias
get_alias(n) ==
  LET IsAs(t) == t.cls = "Token" /\ t.ttype = "Keyword" /\ Upper(t.value) = W_AS
      kw == FirstIndex({i \in DOMAIN n.tokens : IsAs(n.tokens[i])})
  IN IF kw # 0 THEN FirstName(Drop(n.tokens, kw + 1), 1, TRUE, FALSE)
     ELSE IF Len(n.tokens) > 2 /\ \E i \in DOMAIN n.tokens : IsWs(n.tokens[i])
       THEN FirstName(Reverse(n.tokens), 1, FALSE, FALSE)
     ELSE <<>>

\* TokenList.get_name
get_name(n) == IF get_alias(n) # <<>> THEN get_alias(n) ELSE get_real_name(n)

\* ------------------------------------------------------------------------
\* app.py helper functions
\* ------------------------------------------------------------------------
\* is_select_only returning sql.upper().startswith(...) without the strip
is_select_only_unstripped(sql) ==
  LET stmt == FirstStatementTokens(sql) IN
  IF stmt = <<>> THEN FALSE
  ELSE IF \E i \in DOMAIN stmt : ~IsWs(stmt[i]) /\ Upper(stmt[i].value) \in forbidden THEN FALSE
  ELSE StartsWith(Upper(sql), W_SELECT) \/ StartsWith(Upper(sql), W_WITH)

\* is_select_only(sql): parsed[0] is scanned for a forbidden token value, then
\* the whole stripped, upper-cased text must start with SELECT or WITH
is_select_only(sql) ==
  LET stmt == FirstStatementTokens(sql) IN
  IF stmt = <<>> THEN FALSE
  ELSE IF \E i \in DOMAIN stmt : ~IsWs(stmt[i]) /\ Upper(stmt[i].value) \in forbidden THEN FALSE
  ELSE StartsWith(Upper(Strip(sql)), W_SELECT) \/ StartsWith(Upper(Strip(sql)), W_WITH)

\* the default of the parameter max_rows
DefaultMaxRows == 200

\* add_limit that appends "LIMIT n" without the separating space
add_limit_nospace(sql, max_rows) ==
  LET upper == Upper(sql) IN
  IF Contains(upper, <<" ">> \o W_LIMIT \o <<" ">>)
     \/ Contains(upper, <<" ">> \o W_FETCH \o <<" ">>)
     \/ Contains(upper, <<" ">> \o W_TOP \o <<" ">>)
    THEN sql
    ELSE RStrip(sql) \o W_LIMIT \o <<" ">> \o IntToChars(max_rows)

\* add_limit(sql, max_rows)
add_limit(sql, max_rows) ==
  LET upper == Upper(sql) IN
  IF Contains(upper, <<" ">> \o W_LIMIT \o <<" ">>)
     \/ Contains(upper, <<" ">> \o W_FETCH \o <<" ">>)
     \/ Contains(upper, <<" ">> \o W_TOP \o <<" ">>)
    THEN sql
    ELSE RStrip(sql) \o <<" ">> \o W_LIMIT \o <<" ">> \o IntToChars(max_rows)

\* The schema is the sequence of its table names, in the order of the dict's
\* keys. table_map = {t.lower(): t for t in schema.keys()}: the last table
\* whose lower-cased name is key
TableMapHas(schema, key) == \E i \in DOMAIN schema : Lower(schema[i]) = key

TableMapGet(schema, key) ==
  schema[CHOOSE i \in DOMAIN schema :
           /\ Lower(schema[i]) = key
           /\ \A j \in DOMAIN schema : Lower(schema[j]) = key => j <= i]

W_AS_SPACED == <<" ", "A", "S", " ">>

\* the text _fix_identifier assigns to the value of token
FixedValue(token, schema) ==
  LET canonical == TableMapGet(schema, Lower(get_real_name(token)))
      alias == get_alias(token)
  IN IF alias # <<>> /\ alias # canonical THEN canonical \o W_AS_SPACED \o alias ELSE canonical

\* whether _fix_identifier assigns token.value
FixApplies(token, schema) ==
  get_real_name(token) # <<>> /\ TableMapHas(schema, Lower(get_real_name(token)))

\* normalize_table_names._fix_identifier: the token after the call
fix_identifier(token, schema) ==
  IF FixApplies(token, schema) THEN [token EXCEPT !.value = FixedValue(token, schema)] ELSE token

\* normalize_table_names._recurse: the tokens after the call
RECURSIVE recurse(_, _)
recurse(tokens, schema) ==
  [i \in DOMAIN tokens |->
     LET token == tokens[i] IN
     IF token.cls = "Identifier" THEN fix_identifier(token, schema)
     ELSE IF token.cls = "IdentifierList" THEN
       [token EXCEPT !.tokens =
          [k \in DOMAIN token.tokens |->
             IF token.tokens[k].cls = "Identifier"
               THEN fix_identifier(token.tokens[k], schema) ELSE token.tokens[k]]]
     ELSE IF token.cls # "Token" THEN [token EXCEPT !.tokens = recurse(@, schema)]
     ELSE token]

\* the statement tree normalize_table_names holds when it returns: parsed[0]
\* after _recurse(stmt.tokens)
NormalizedTree(sql, schema) ==
  LET stmt == GroupStatement(FirstStatementTokens(sql)) IN
  [stmt EXCEPT !.tokens = recurse(@, schema)]

\* normalize_table_names(sql, schema)
normalize_table_names(sql, schema) ==
  IF schema = <<>> THEN sql
  ELSE IF FirstStatementTokens(sql) = <<>> THEN sql
  ELSE Str(NormalizedTree(sql, schema))

\* ------------------------------------------------------------------------
\* json.loads: a strict decoder over characters. Values are records
\* [t, s, items]: t the type, s the characters of a string or number, items
\* the members [k, v] of an object (k the key) or array (k empty).
\* Escapes and fractions are not characters of the model's replies.
\* ------------------------------------------------------------------------
JNull == [t |-> "null", s |-> <<>>, items |-> <<>>]
JStr(cs) == [t |-> "str", s |-> cs, items |-> <<>>]
JNum(cs) == [t |-> "num", s |-> cs, items |-> <<>>]
JBool(b) == [t |-> IF b THEN "true" ELSE "false", s |-> <<>>, items |-> <<>>]
JObj(members) == [t |-> "obj", s |-> <<>>, items |-> members]
JArr(members) == [t |-> "arr", s |-> <<>>, items |-> members]

JFail == [ok |-> FALSE, v |-> JNull, n |-> 0]
JOk(v, n) == [ok |-> TRUE, v |-> v, n |-> n]

\* a scanner that skips no whitespace at all
SkipWs_none(s, i) == i

\* first position >= i that holds no JSON whitespace
RECURSIVE SkipWs(_, _)
SkipWs(s, i) == IF i <= Len(s) /\ IsSpace(s[i]) THEN SkipWs(s, i + 1) ELSE i

\* position of the '"' that ends the string whose body starts at i, or 0 when
\* the string is unterminated or holds a control character or a backslash
StringEnd(s, i) ==
  LET ps == {p \in i..Len(s) : s[p] \in {"\"", "\n", "\t", "\r", "\\"}} IN
  IF ps = {} \/ s[Least(ps)] # "\"" THEN 0 ELSE Least(ps)

\* last position of the run of digits that starts at i
RECURSIVE DigitsEnd(_, _)
DigitsEnd(s, i) == IF i < Len(s) /\ IsDigit(s[i + 1]) THEN DigitsEnd(s, i + 1) ELSE i

J_null == <<"n","u","l","l">>
J_true == <<"t","r","u","e">>
J_false == <<"f","a","l","s","e">>

RECURSIVE ParseValue(_, _)
RECURSIVE ParseMembers(_, _, _)
RECURSIVE ParseElements(_, _, _)

\* the scanner's scan_once at position i: [ok, v, n], n the position after the value
ParseValue(s, i) ==
  IF i > Len(s) THEN JFail
  ELSE IF s[i] = "\"" THEN
    LET e == StringEnd(s, i + 1) IN
    IF e = 0 THEN JFail ELSE JOk(JStr(SubSeq(s, i + 1, e - 1)), e + 1)
  ELSE IF s[i] = "{" THEN
    LET j == SkipWs(s, i + 1) IN
    IF j <= Len(s) /\ s[j] = "}" THEN JOk(JObj(<<>>), j + 1) ELSE ParseMembers(s, j, <<>>)
  ELSE IF s[i] = "[" THEN
    LET j == SkipWs(s, i + 1) IN
    IF j <= Len(s) /\ s[j] = "]" THEN JOk(JArr(<<>>), j + 1) ELSE ParseElements(s, j, <<>>)
  ELSE IF MatchAt(s, J_null, i) THEN JOk(JNull, i + 4)
  ELSE IF MatchAt(s, J_true, i) THEN JOk(JBool(TRUE), i + 4)
  ELSE IF MatchAt(s, J_false, i) THEN JOk(JBool(FALSE), i + 5)
  ELSE
    LET d == IF s[i] = "-" THEN i + 1 ELSE i IN
    IF d <= Len(s) /\ IsDigit(s[d])
      THEN LET e == IF s[d] = "0" THEN d ELSE DigitsEnd(s, d) IN JOk(JNum(SubSeq(s, i, e)), e + 1)
      ELSE JFail

\* a member or an element that cannot be read
NoItem == [ok |-> FALSE, k |-> <<>>, v |-> JNull, n |-> 0, last |-> TRUE]

\* what follows the value that ends before position n: the closing character
\* (last) or a comma and the position of the next item
ItemAfter(s, key, r, close) ==
  LET j == SkipWs(s, r.n) IN
  IF j > Len(s) THEN NoItem
  ELSE IF s[j] = close THEN [ok |-> TRUE, k |-> key, v |-> r.v, n |-> j + 1, last |-> TRUE]
  ELSE IF s[j] = "," THEN [ok |-> TRUE, k |-> key, v |-> r.v, n |-> SkipWs(s, j + 1), last |-> FALSE]
  ELSE NoItem

\* JSONObject: the member whose key starts at position i
ParseMember(s, i) ==
  IF i > Len(s) \/ s[i] # "\"" \/ StringEnd(s, i + 1) = 0 THEN NoItem
  ELSE
    LET e == StringEnd(s, i + 1)
        c == SkipWs(s, e + 1)
        r == ParseValue(s, SkipWs(s, c + 1))
    IN IF c > Len(s) \/ s[c] # ":" THEN NoItem
       ELSE IF ~r.ok THEN NoItem
       ELSE ItemAfter(s, SubSeq(s, i + 1, e - 1), r, "}")

\* JSONArray: the element that starts at position i
ParseElement(s, i) ==
  LET r == ParseValue(s, i) IN IF ~r.ok THEN NoItem ELSE ItemAfter(s, <<>>, r, "]")

\* JSONObject: the members from the key at position i on, acc the members so far
ParseMembers(s, i, acc) ==
  LET m == ParseMember(s, i) IN
  IF ~m.ok THEN JFail
  ELSE IF m.last THEN JOk(JObj(Append(acc, [k |-> m.k, v |-> m.v])), m.n)
  ELSE ParseMembers(s, m.n, Append(acc, [k |-> m.k, v |-> m.v]))

\* JSONArray: the elements from the value at position i on
ParseElements(s, i, acc) ==
  LET m == ParseElement(s, i) IN
  IF ~m.ok THEN JFail
  ELSE IF m.last THEN JOk(JArr(Append(acc, [k |-> <<>>, v |-> m.v])), m.n)
  ELSE ParseElements(s, m.n, Append(acc, [k |-> <<>>, v |-> m.v]))

\* json.loads(s): [ok, v]; whitespace may surround the value, nothing else
json_loads(s) ==
  LET r == ParseValue(s, SkipWs(s, 1)) IN
  IF r.ok /\ SkipWs(s, r.n) > Len(s) THEN r ELSE JFail

\* dict.get(key) on a decoded object: the last member with that key, else None
DictHas(obj, key) == \E i \in DOMAIN obj.items : obj.items[i].k = key

DictGet(obj, key) ==
  IF DictHas(obj, key)
    THEN obj.items[CHOOSE i \in DOMAIN obj.items :
                     /\ obj.items[i].k = key
                     /\ \A j \in DOMAIN obj.items : obj.items[j].k = key => j <= i].v
    ELSE JNull

\* Python truth value of a decoded value
Truthy(v) ==
  CASE v.t = "null" -> FALSE
    [] v.t = "false" -> FALSE
    [] v.t = "true" -> TRUE
    [] v.t = "str" -> v.s # <<>>
    [] v.t = "num" -> \E i \in DOMAIN v.s : v.s[i] \notin {"0", "-"}
    [] OTHER -> v.items # <<>>

\* ------------------------------------------------------------------------
\* ask_llm: the tolerant parsing of the reply (lines 212-234)
\* ------------------------------------------------------------------------
\* str.find(c) and str.rfind(c), 0-based, -1 when c does not occur
Find(s, c) ==
  IF \E i \in DOMAIN s : s[i] = c
    THEN (CHOOSE i \in DOMAIN s : s[i] = c /\ \A j \in 1..(i - 1) : s[j] # c) - 1
    ELSE -1

RFind(s, c) ==
  IF \E i \in DOMAIN s : s[i] = c
    THEN (CHOOSE i \in DOMAIN s : s[i] = c /\ \A j \in (i + 1)..Len(s) : s[j] # c) - 1
    ELSE -1

\* the Python slice s[a:b] for b >= 0 (a negative counts from the end)
PySlice(s, a, b) ==
  LET lo == IF a < 0 THEN (IF Len(s) + a < 0 THEN 0 ELSE Len(s) + a)
            ELSE (IF a > Len(s) THEN Len(s) ELSE a)
      hi == IF b > Len(s) THEN Len(s) ELSE b
  IN SubSeq(s, lo + 1, hi)

\* content[start:end+1] with start = content.find("{"), end = content.rfind("}")
ExtractFragment(content) == PySlice(content, Find(content, "{"), RFind(content, "}") + 1)

\* fragment.replace("'", '"')
ReplaceQuotes(s) == [i \in DOMAIN s |-> IF s[i] = "'" THEN "\"" ELSE s[i]]

\* position of the first c at or after i, or 0
NextChar(s, c, i) ==
  LET ps == {p \in i..Len(s) : s[p] = c} IN IF ps = {} THEN 0 ELSE Least(ps)

\* re.sub(r"//.*?\n", "", s) from position i on: '.' matches no newline, so a
\* match runs from the leftmost "//" that has a newline after it to the first
\* such newline, and the search goes on behind it
RECURSIVE StripLineComments(_, _)
StripLineComments(s, i) ==
  LET ps == {p \in i..Len(s) : MatchAt(s, <<"/", "/">>, p) /\ NextChar(s, "\n", p + 2) # 0} IN
  IF ps = {} THEN SubSeq(s, i, Len(s))
  ELSE SubSeq(s, i, Least(ps) - 1) \o StripLineComments(s, NextChar(s, "\n", Least(ps) + 2) + 1)

\* position of the first "*/" at or after i with no newline before it, or 0
RECURSIVE BlockEnd(_, _)
BlockEnd(s, i) ==
  IF i + 1 > Len(s) THEN 0
  ELSE IF MatchAt(s, <<"*", "/">>, i) THEN i
  ELSE IF s[i] = "\n" THEN 0
  ELSE BlockEnd(s, i + 1)

\* re.sub(r"/\*.*?\*/", "", s) from position i on: the leftmost "/*" that is
\* closed on its line is removed with its comment
RECURSIVE StripBlockComments(_, _)
StripBlockComments(s, i) ==
  LET ps == {p \in i..Len(s) : MatchAt(s, <<"/", "*">>, p) /\ BlockEnd(s, p + 2) # 0} IN
  IF ps = {} THEN SubSeq(s, i, Len(s))
  ELSE SubSeq(s, i, Least(ps) - 1) \o StripBlockComments(s, BlockEnd(s, Least(ps) + 2) + 2)

\* a substitution that leaves the trailing commas in place
StripCommaBefore_keep(s, close, i) == SubSeq(s, i, Len(s))

\* re.sub(r",\s*<close>", "<close>", s) from position i on: the leftmost
\* comma that only whitespace separates from <close> is removed with that
\* whitespace
RECURSIVE StripCommaBefore(_, _, _)
StripCommaBefore(s, close, i) ==
  LET ps == {p \in i..Len(s) :
               s[p] = "," /\ SkipWs(s, p + 1) <= Len(s) /\ s[SkipWs(s, p + 1)] = close}
  IN IF ps = {} THEN SubSeq(s, i, Len(s))
     ELSE SubSeq(s, i, Least(ps) - 1) \o <<close>>
            \o StripCommaBefore(s, close, SkipWs(s, Least(ps) + 1) + 1)

\* ------------------------------------------------------------------------
\* State
\* ------------------------------------------------------------------------
VARIABLES
  in_sql,     \* argument sql of a helper called on its own
  in_max,     \* argument max_rows
  in_schema,  \* argument schema
  called,     \* the helper that has been called, "" before the call
  out_bool,   \* boolean return value
  out_text,   \* text return value
  out_tree,   \* the statement tree a helper built, as it is when the helper returns
  engine,     \* st.session_state.engine: "None" or the database it points to
  schema,     \* st.session_state.schema: [none, tables]
  connected,  \* st.session_state.connected
  pc,         \* position of the page script in the Run handler
  content,    \* ask_llm: the stripped reply of the model
  fragment,   \* ask_llm: the fragment under repair
  llm_out,    \* the value ask_llm returned
  sql,        \* the handler's local sql
  shown,      \* what the page has displayed in this run, in order
  raw_shown,  \* the text handed to st.text
  outcome,    \* how the request ended
  llm_calls,  \* calls of the model in this request
  query_calls, \* calls of pd.read_sql_query in this request
  gate,       \* [called, arg, ret]: the call of is_select_only in this request
  executed,   \* the text handed to pd.read_sql_query
  chart_spec, \* the chart specification handed to the renderer
  chart_raised, \* whether the chart block raised in this request
  at_start    \* the session values when the request began

fnvars == <<in_sql, in_max, in_schema, called, out_bool, out_text, out_tree>>
session == <<engine, schema, connected>>
reqvars == <<pc, content, fragment, llm_out, sql, shown, raw_shown, outcome,
             llm_calls, query_calls, gate, executed, chart_spec, chart_raised, at_start>>
vars == <<fnvars, session, reqvars>>

\* ------------------------------------------------------------------------
\* Bounded input texts: concatenations of at most MaxLexemes lexemes
\* ------------------------------------------------------------------------
MaxLexemes == 4

\* all sequences over S of length at most n
RECURSIVE SeqsUpTo(_, _)
SeqsUpTo(S, n) ==
  IF n = 0 THEN {<<>>}
  ELSE LET shorter == SeqsUpTo(S, n - 1) IN
       shorter \cup {Append(q, x) : q \in shorter, x \in S}

TextsOver(lexemes, n) == {Join(q) : q \in SeqsUpTo(lexemes, n)}

GateLexemes ==
  {<<"s","e","l","e","c","t">>, W_WITH, <<"D","r","o","p">>, <<"t">>, <<" ">>, <<";">>, <<"'">>,
   <<"'","D","r","o","p","'">>}

LimitLexemes ==
  {<<"t">>, <<" ">>, <<"\n">>, <<"l","i","m","i","t">>, <<"F","e","t","c","h">>, W_TOP}

MaxRowsValues == {-1, 7, DefaultMaxRows}

\* statements for normalize_table_names: table references with and without
\* alias, comma lists, a function call in a list, aliased subqueries nested
\* up to MaxNest deep, and a WITH clause
MaxNest == 1

T_employees == <<"e","m","p","l","o","y","e","e","s">>
T_Employees == <<"E","m","p","l","o","y","e","e","s">>
T_ORDERS == <<"O","R","D","E","R","S">>
T_Orders == <<"O","r","d","e","r","s">>
T_staff == <<"s","t","a","f","f">>

SelectStarFrom == <<"S","E","L","E","C","T"," ","*"," ","F","R","O","M"," ">>

NormNames == {T_employees, T_ORDERS, T_staff}

TableRefs == {n \o a : n \in NormNames, a \in {<<>>, <<" ","e">>, <<" ","A","S"," ","e">>}}

RECURSIVE NormSources(_)
NormSources(d) ==
  IF d = 0
    THEN TableRefs
         \cup {r \o <<",", " ">> \o n : r \in TableRefs, n \in NormNames}
         \cup {<<"f", "(">> \o n \o <<")", ",", " ">> \o m : n \in NormNames, m \in NormNames}
    ELSE NormSources(d - 1)
         \cup {<<"(">> \o SelectStarFrom \o q \o <<")", " ", "x">> : q \in NormSources(d - 1)}

NormInputs ==
  {SelectStarFrom \o q : q \in NormSources(MaxNest)}
  \cup {<<"W","I","T","H"," ","c"," ","A","S"," ","(">> \o SelectStarFrom \o r
         \o <<")", " ">> \o SelectStarFrom \o <<"c">> : r \in TableRefs}

NormSchemas == {<<>>, <<T_Employees>>, <<T_Employees, T_Orders>>}

NoTree == Group("Statement", <<>>)

\* ------------------------------------------------------------------------
\* Values before anything has run
\* ------------------------------------------------------------------------
NoSchema == [none |-> TRUE, tables |-> <<>>]
NoGate == [called |-> FALSE, arg |-> <<>>, ret |-> FALSE]

\* the local state of a request that has not begun
RequestIdle ==
  /\ pc = "idle"
  /\ content = <<>>
  /\ fragment = <<>>
  /\ llm_out = JNull
  /\ sql = <<>>
  /\ shown = <<>>
  /\ raw_shown = <<>>
  /\ outcome = "none"
  /\ llm_calls = 0
  /\ query_calls = 0
  /\ gate = NoGate
  /\ executed = <<>>
  /\ chart_spec = JNull
  /\ chart_raised = FALSE
  /\ at_start = [engine |-> "None", schema |-> NoSchema, connected |-> FALSE]

\* session state initialisation (lines 237-240)
SessionInit ==
  /\ engine = "None"
  /\ schema = NoSchema
  /\ connected = FALSE

\* no helper called on its own
FnIdle ==
  /\ in_sql = <<>>
  /\ in_max = DefaultMaxRows
  /\ in_schema = <<>>
  /\ called = ""
  /\ out_bool = FALSE
  /\ out_text = <<>>
  /\ out_tree = NoTree

\* ------------------------------------------------------------------------
\* The helpers called on their own
\* ------------------------------------------------------------------------
InitNorm ==
  /\ in_sql \in NormInputs
  /\ in_max = DefaultMaxRows
  /\ in_schema \in NormSchemas
  /\ called = ""
  /\ out_bool = FALSE
  /\ out_text = <<>>
  /\ out_tree = NoTree
  /\ SessionInit
  /\ RequestIdle

Call_normalize_table_names ==
  /\ called = ""
  /\ called' = "normalize_table_names"
  /\ out_text' = normalize_table_names(in_sql, in_schema)
  /\ out_tree' = IF in_schema = <<>> \/ FirstStatementTokens(in_sql) = <<>>
                   THEN NoTree ELSE NormalizedTree(in_sql, in_schema)
  /\ UNCHANGED <<in_sql, in_max, in_schema, out_bool, session, reqvars>>

SpecNorm == InitNorm /\ [][Call_normalize_table_names]_vars

InitGate ==
  /\ in_sql \in TextsOver(GateLexemes, MaxLexemes)
  /\ in_max = DefaultMaxRows
  /\ in_schema = <<>>
  /\ called = ""
  /\ out_bool = FALSE
  /\ out_text = <<>>
  /\ out_tree = NoTree
  /\ SessionInit
  /\ RequestIdle

Call_is_select_only ==
  /\ called = ""
  /\ called' = "is_select_only"
  /\ out_bool' = is_select_only(in_sql)
  /\ UNCHANGED <<in_sql, in_max, in_schema, out_text, out_tree, session, reqvars>>

SpecGate == InitGate /\ [][Call_is_select_only]_vars

InitLimit ==
  /\ in_sql \in TextsOver(LimitLexemes, MaxLexemes)
  /\ in_max \in MaxRowsValues
  /\ in_schema = <<>>
  /\ called = ""
  /\ out_bool = FALSE
  /\ out_text = <<>>
  /\ out_tree = NoTree
  /\ SessionInit
  /\ RequestIdle

Call_add_limit ==
  /\ called = ""
  /\ called' = "add_limit"
  /\ out_text' = add_limit(in_sql, in_max)
  /\ UNCHANGED <<in_sql, in_max, in_schema, out_bool, out_tree, session, reqvars>>

SpecLimit == InitLimit /\ [][Call_add_limit]_vars


\* ------------------------------------------------------------------------
\* The replies of the model: JSON objects with the keys sql, summary and
\* chart in several spellings, and texts that are no JSON object
\* ------------------------------------------------------------------------
K_sql == <<"s","q","l">>
K_summary == <<"s","u","m","m","a","r","y">>
K_chart == <<"c","h","a","r","t">>
K_data == <<"d","a","t","a">>
K_mark == <<"m","a","r","k">>

Q_select1 == <<"S","E","L","E","C","T"," ","1">>
Q_alias == <<"s","e","l","e","c","t"," ","*"," ","f","r","o","m"," ","E","m","p","l","o","y","e","e","s"," ","e">>
Q_limited == <<"S","E","L","E","C","T"," ","*"," ","F","R","O","M"," ","t"," ","L","I","M","I","T"," ","5">>
Q_drop == <<"D","R","O","P"," ","T","A","B","L","E"," ","t">>
Q_two == <<"S","E","L","E","C","T"," ","*"," ","F","R","O","M"," ","t",";"," ","D","R","O","P"," ","T","A","B","L","E"," ","t">>

SqlTexts == {Q_select1, Q_alias, Q_limited, Q_drop, Q_two}

\* a field of a reply: absent, or present with a value
Absent == [present |-> FALSE, v |-> JNull]
Present(v) == [present |-> TRUE, v |-> v]

ChartBar == JObj(<<[k |-> K_mark, v |-> JStr(<<"b","a","r">>)]>>)
ChartWithData == JObj(<<[k |-> K_data, v |-> JNum(<<"1">>)], [k |-> K_mark, v |-> JStr(<<"b","a","r">>)]>>)

SqlFields == {Present(JStr(q)) : q \in SqlTexts} \cup {Present(JNull), Present(JNum(<<"5">>)), Absent}
SummaryFields == {Present(JStr(<<"o","k">>)), Absent}
ChartFields ==
  {Absent, Present(JNull), Present(ChartBar), Present(ChartWithData),
   Present(JStr(<<"b","a","r">>)), Present(JNum(<<"5">>))}

\* the text of the value v with the quote character q
RECURSIVE RenderValue(_, _)
RenderValue(v, q) ==
  CASE v.t = "str" -> <<q>> \o v.s \o <<q>>
    [] v.t = "num" -> v.s
    [] v.t = "null" -> J_null
    [] v.t = "true" -> J_true
    [] v.t = "false" -> J_false
    [] v.t = "arr" ->
         <<"[">> \o Join([i \in DOMAIN v.items |->
                     (IF i > 1 THEN <<",", " ">> ELSE <<>>) \o RenderValue(v.items[i].v, q)]) \o <<"]">>
    [] OTHER ->
         <<"{">> \o Join([i \in DOMAIN v.items |->
                     (IF i > 1 THEN <<",", " ">> ELSE <<>>)
                     \o <<q>> \o v.items[i].k \o <<q, ":", " ">> \o RenderValue(v.items[i].v, q)]) \o <<"}">>

\* the members of the reply object of the form f, in the order sql, summary, chart
FormMembers(f) ==
  (IF f.sql.present THEN <<[k |-> K_sql, v |-> f.sql.v]>> ELSE <<>>)
  \o (IF f.summary.present THEN <<[k |-> K_summary, v |-> f.summary.v]>> ELSE <<>>)
  \o (IF f.chart.present THEN <<[k |-> K_chart, v |-> f.chart.v]>> ELSE <<>>)

ReplyPrefix == <<"H","e","r","e"," ","i","s"," ","t","h","e"," ","a","n","s","w","e","r",":"," ">>
ReplyLineComment == <<" ","/","/"," ","n","o","t","e","\n">>
ReplyBlockComment == <<" ","/","*"," ","n","o","t","e"," ","*","/">>

\* the reply text of the form f: quote character, trailing comma, a comment
\* before the closing brace, text before the object
Render(f) ==
  LET obj == RenderValue(JObj(FormMembers(f)), f.quote) IN
  (IF f.prefix THEN ReplyPrefix ELSE <<>>)
  \o SubSeq(obj, 1, Len(obj) - 1)
  \o (IF f.comma THEN <<",">> ELSE <<>>)
  \o (CASE f.comment = "line" -> ReplyLineComment
        [] f.comment = "block" -> ReplyBlockComment
        [] OTHER -> <<>>)
  \o <<"}">>

\* well-formed objects with any fields
StrictForms ==
  [sql : SqlFields, summary : SummaryFields, chart : ChartFields,
   quote : {"\""}, comma : {FALSE}, comment : {"none"}, prefix : {FALSE}]

\* objects with the defects the repairs are written for
DefectForms ==
  [sql : {Present(JStr(Q_select1)), Present(JStr(Q_two))}, summary : SummaryFields,
   chart : {Absent, Present(JNull), Present(ChartBar)},
   quote : {"\"", "'"}, comma : BOOLEAN, comment : {"none", "line", "block"}, prefix : BOOLEAN]
  \ StrictForms

\* replies that are no JSON object, and a padded well-formed one
RawReplies ==
  {<<"n","o","t"," ","j","s","o","n"," ","a","t"," ","a","l","l">>, <<"4","2">>, <<"n","u","l","l">>, <<"x","}">>, <<"{">>, <<"}"," ","{">>, <<"[","1","]">>, <<"\"","t","e","x","t","\"">>, <<" ","{","\"","s","q","l","\"",":"," ","\"","S","E","L","E","C","T"," ","1","\"","}","\n">>}

Replies == {Render(f) : f \in StrictForms \cup DefectForms} \cup RawReplies

\* ------------------------------------------------------------------------
\* The databases a Connect can reach and the questions a user can type
\* ------------------------------------------------------------------------
T_departments == <<"d","e","p","a","r","t","m","e","n","t","s">>
T_projects == <<"p","r","o","j","e","c","t","s">>

\* the tables reflect_schema finds: the demo database of lines 257-335, a
\* user database with one table, a user database without tables
Reflect(db) ==
  CASE db = "demo" -> <<T_employees, T_departments, T_projects>>
    [] db = "user" -> <<T_Employees>>
    [] OTHER -> <<>>

Databases == {"demo", "user", "empty"}

Questions == {<<" ">>, <<"q","?">>}

\* ------------------------------------------------------------------------
\* The page script: Connect handler and Run handler
\* ------------------------------------------------------------------------
\* the locals of a script run that starts at position p having shown ui
StartRun(p, ui, why) ==
  /\ pc' = p
  /\ shown' = ui
  /\ outcome' = why
  /\ content' = <<>>
  /\ fragment' = <<>>
  /\ llm_out' = JNull
  /\ sql' = <<>>
  /\ raw_shown' = <<>>
  /\ llm_calls' = 0
  /\ query_calls' = 0
  /\ gate' = NoGate
  /\ executed' = <<>>
  /\ chart_spec' = JNull
  /\ chart_raised' = FALSE
  /\ at_start' = [engine |-> engine, schema |-> schema, connected |-> connected]

\* Connect button (lines 254-346): the engine cannot be created (or the demo
\* seeding fails), or it is stored and reflect_schema fails, or all succeeds
Connect ==
  /\ pc \in {"idle", "done"}
  /\ \E db \in Databases :
       \/ /\ connected' = FALSE
          /\ UNCHANGED <<engine, schema>>
          /\ StartRun("idle", <<"error_connection">>, "none")
       \/ /\ engine' = db
          /\ connected' = FALSE
          /\ UNCHANGED schema
          /\ StartRun("idle", <<"error_connection">>, "none")
       \/ /\ engine' = db
          /\ schema' = [none |-> FALSE, tables |-> Reflect(db)]
          /\ connected' = TRUE
          /\ StartRun("idle", <<"success", "caption">>, "none")
  /\ UNCHANGED fnvars

\* the sidebar status (lines 349-352): "Connected" is displayed
StatusConnected == connected

\* the tab guard `if st.session_state.engine:` (line 417)
TabOffered == engine # "None"

\* Run button (lines 417-440, 483-484): offered only while an engine is stored
RunClicked ==
  /\ pc \in {"idle", "done"}
  /\ engine # "None"
  /\ \E question \in Questions :
       IF Strip(question) # <<>>
         THEN StartRun("ask", <<>>, "none")
         ELSE StartRun("done", <<"warning_no_question">>, "no_question")
  /\ UNCHANGED <<fnvars, session>>

\* the handler's `except Exception as e: st.error(...)` (lines 481-482)
Raise ==
  /\ shown' = Append(shown, "error")
  /\ outcome' = "error"
  /\ pc' = "done"

\* ask_llm up to the reply (lines 188-212): schema_markdown raises on a schema
\* of None, the API call may raise, else the reply is stripped
AskLlm ==
  /\ pc = "ask"
  /\ \/ /\ schema.none
        /\ Raise
        /\ UNCHANGED <<content, llm_calls>>
     \/ /\ ~schema.none
        /\ llm_calls' = llm_calls + 1
        /\ \/ /\ Raise
              /\ UNCHANGED content
           \/ /\ \E reply \in Replies : content' = Strip(reply)
              /\ pc' = "decode"
              /\ UNCHANGED <<shown, outcome>>
  /\ UNCHANGED <<fnvars, session, fragment, llm_out, sql, raw_shown, query_calls, gate,
                 executed, chart_spec, chart_raised, at_start>>

\* ask_llm: json.loads(content) (lines 215-217)
StrictDecode ==
  /\ pc = "decode"
  /\ IF json_loads(content).ok
       THEN llm_out' = json_loads(content).v /\ pc' = "fields"
       ELSE pc' = "extract" /\ UNCHANGED llm_out
  /\ UNCHANGED <<fnvars, session, content, fragment, sql, shown, raw_shown, outcome,
                 llm_calls, query_calls, gate, executed, chart_spec, chart_raised, at_start>>

\* one repair step of ask_llm: the fragment becomes f, the script moves on to p
RepairStep(from, f, p) ==
  /\ pc = from
  /\ fragment' = f
  /\ pc' = p
  /\ UNCHANGED <<fnvars, session, content, llm_out, sql, shown, raw_shown, outcome,
                 llm_calls, query_calls, gate, executed, chart_spec, chart_raised, at_start>>

\* lines 219-220
Extract == RepairStep("extract", ExtractFragment(content), "quotes")
\* line 223
Quotes == RepairStep("quotes", ReplaceQuotes(fragment), "line_comments")
\* line 224
LineComments == RepairStep("line_comments", StripLineComments(fragment, 1), "block_comments")
\* line 225
BlockComments == RepairStep("block_comments", StripBlockComments(fragment, 1), "comma_brace")
\* line 226
CommaBrace == RepairStep("comma_brace", StripCommaBefore(fragment, "}", 1), "comma_bracket")
\* line 227
CommaBracket == RepairStep("comma_bracket", StripCommaBefore(fragment, "]", 1), "decode_fragment")

\* ask_llm: json.loads(fragment), and on failure the warning, the raw text and
\* the re-raised error (lines 229-234), which the handler's except shows
DecodeFragment ==
  /\ pc = "decode_fragment"
  /\ IF json_loads(fragment).ok
       THEN /\ llm_out' = json_loads(fragment).v
            /\ pc' = "fields"
            /\ UNCHANGED <<shown, raw_shown, outcome>>
       ELSE /\ shown' = shown \o <<"warning_invalid_json", "text", "error">>
            /\ raw_shown' = content
            /\ outcome' = "error"
            /\ pc' = "done"
            /\ UNCHANGED llm_out
  /\ UNCHANGED <<fnvars, session, content, fragment, sql, llm_calls, query_calls, gate,
                 executed, chart_spec, chart_raised, at_start>>

\* lines 443-452: llm_out.get("sql") raises unless llm_out is a dict; no SQL;
\* sql.strip() raises unless sql is a str
Fields ==
  /\ pc = "fields"
  /\ IF llm_out.t # "obj" THEN Raise /\ UNCHANGED sql
     ELSE IF ~Truthy(DictGet(llm_out, K_sql))
       THEN /\ shown' = shown \o <<"info_no_sql", "schema">>
            /\ outcome' = "no_sql"
            /\ pc' = "done"
            /\ UNCHANGED sql
     ELSE IF DictGet(llm_out, K_sql).t # "str" THEN Raise /\ UNCHANGED sql
     ELSE /\ sql' = Strip(DictGet(llm_out, K_sql).s)
          /\ pc' = "normalize"
          /\ UNCHANGED <<shown, outcome>>
  /\ UNCHANGED <<fnvars, session, content, fragment, llm_out, raw_shown, llm_calls,
                 query_calls, gate, executed, chart_spec, chart_raised, at_start>>

\* line 453
Normalize ==
  /\ pc = "normalize"
  /\ sql' = normalize_table_names(sql, schema.tables)
  /\ pc' = "gate"
  /\ UNCHANGED <<fnvars, session, content, fragment, llm_out, shown, raw_shown, outcome,
                 llm_calls, query_calls, gate, executed, chart_spec, chart_raised, at_start>>

\* `if not is_select_only(sql)` taken the other way round
Blocked_inverted(safe) == safe

\* line 455: `if not is_select_only(sql)`
Blocked(safe) == ~safe

\* lines 455-456
CheckSafety ==
  /\ pc = "gate"
  /\ gate' = [called |-> TRUE, arg |-> sql, ret |-> is_select_only(sql)]
  /\ IF Blocked(is_select_only(sql))
       THEN /\ shown' = Append(shown, "error_blocked")
            /\ outcome' = "blocked"
            /\ pc' = "done"
       ELSE /\ pc' = "limit"
            /\ UNCHANGED <<shown, outcome>>
  /\ UNCHANGED <<fnvars, session, content, fragment, llm_out, sql, raw_shown, llm_calls,
                 query_calls, executed, chart_spec, chart_raised, at_start>>

\* lines 458-465
AddLimit ==
  /\ pc = "limit"
  /\ sql' = add_limit(sql, DefaultMaxRows)
  /\ shown' = shown \o <<"code">>
               \o (IF Truthy(DictGet(llm_out, K_summary)) THEN <<"summary">> ELSE <<>>)
  /\ pc' = "execute"
  /\ UNCHANGED <<fnvars, session, content, fragment, llm_out, raw_shown, outcome, llm_calls,
                 query_calls, gate, executed, chart_spec, chart_raised, at_start>>

\* lines 466-467: pd.read_sql_query returns a frame, which is displayed, or raises
Execute ==
  /\ pc = "execute"
  /\ query_calls' = query_calls + 1
  /\ executed' = sql
  /\ \/ /\ shown' = Append(shown, "dataframe")
        /\ pc' = "chart"
        /\ UNCHANGED outcome
     \/ Raise
  /\ UNCHANGED <<fnvars, session, content, fragment, llm_out, sql, raw_shown, llm_calls,
                 gate, chart_spec, chart_raised, at_start>>

\* lines 472-476: [ok, spec]. A str is decoded; `"data" in chart_spec` raises
\* on a number, a bool or None; `del chart_spec["data"]` raises unless
\* chart_spec is a dict
ChartPrepare(v) ==
  LET r == IF v.t = "str" THEN json_loads(v.s) ELSE [ok |-> TRUE, v |-> v, n |-> 0]
      spec == r.v
  IN IF ~r.ok THEN [ok |-> FALSE, spec |-> JNull]
     ELSE IF spec.t = "obj" THEN
       [ok |-> TRUE,
        spec |-> JObj(SelectSeq(spec.items, LAMBDA m : m.k # K_data))]
     ELSE IF spec.t = "arr" THEN
       [ok |-> ~\E i \in DOMAIN spec.items : spec.items[i].v = JStr(K_data), spec |-> spec]
     ELSE IF spec.t = "str" THEN [ok |-> ~Contains(spec.s, K_data), spec |-> spec]
     ELSE [ok |-> FALSE, spec |-> JNull]

\* the inner except as if it let the error reach the handler's except
ChartExcept_propagates(ui) == Append(ui, "error")

\* lines 479-480: `except Exception as e: st.warning(...)`
ChartExcept(ui) == Append(ui, "warning_chart")

\* how a request ends whose display contains the entries ui
FinalOutcome(ui) == IF \E i \in DOMAIN ui : ui[i] = "error" THEN "error" ELSE "ok"

\* lines 469-480: no chart; or the specification cannot be prepared; or the
\* renderer draws it; or the renderer raises
Chart ==
  /\ pc = "chart"
  /\ pc' = "done"
  /\ LET v == DictGet(llm_out, K_chart)
         p == ChartPrepare(v)
     IN IF ~Truthy(v)
          THEN /\ outcome' = "ok"
               /\ UNCHANGED <<shown, chart_spec, chart_raised>>
        ELSE IF ~p.ok
          THEN /\ shown' = ChartExcept(shown)
               /\ outcome' = FinalOutcome(shown')
               /\ chart_raised' = TRUE
               /\ UNCHANGED chart_spec
        ELSE /\ chart_spec' = p.spec
             /\ \/ /\ shown' = shown \o <<"subheader", "chart">>
                   /\ outcome' = "ok"
                   /\ UNCHANGED chart_raised
                \/ /\ shown' = ChartExcept(Append(shown, "subheader"))
                   /\ outcome' = FinalOutcome(shown')
                   /\ chart_raised' = TRUE
  /\ UNCHANGED <<fnvars, session, content, fragment, llm_out, sql, raw_shown, llm_calls,
                 query_calls, gate, executed, at_start>>

Init ==
  /\ FnIdle
  /\ SessionInit
  /\ RequestIdle

Next ==
  \/ Connect
  \/ RunClicked
  \/ AskLlm
  \/ StrictDecode
  \/ Extract
  \/ Quotes
  \/ LineComments
  \/ BlockComments
  \/ CommaBrace
  \/ CommaBracket
  \/ DecodeFragment
  \/ Fields
  \/ Normalize
  \/ CheckSafety
  \/ AddLimit
  \/ Execute
  \/ Chart

Spec == Init /\ [][Next]_vars

\* ------------------------------------------------------------------------
\* Claims about is_select_only
\* ------------------------------------------------------------------------
\* a token of the whole text whose upper-cased value is a forbidden keyword
HasForbiddenToken(text) ==
  LET toks == Lex(text) IN \E i \in DOMAIN toks : Upper(toks[i].value) \in forbidden

BeginsSelectOrWith(text) ==
  LET u == Upper(LStrip(text)) IN StartsWith(u, W_SELECT) \/ StartsWith(u, W_WITH)

\* C2: every text that contains a forbidden keyword token anywhere, also after
\* a semicolon, is rejected by is_select_only.
C2_ForbiddenAnywhereRejected ==
  (called = "is_select_only" /\ HasForbiddenToken(in_sql)) => out_bool = FALSE

\* C3: a text without any forbidden keyword token is accepted exactly when,
\* leading whitespace trimmed and case ignored, it begins with SELECT or WITH
\* (so the empty text is rejected).
C3_NoForbiddenDecidedByPrefix ==
  (called = "is_select_only" /\ ~HasForbiddenToken(in_sql))
    => (out_bool = BeginsSelectOrWith(in_sql))

\* C3 witness: a lower-case select after leading whitespace has been accepted,
\* the text holding a quoted forbidden word that is no keyword token
C3_Witness ==
  /\ called = "is_select_only"
  /\ out_bool = TRUE
  /\ in_sql = <<" ","s","e","l","e","c","t","'","D","r","o","p","'">>

\* ------------------------------------------------------------------------
\* Claims about add_limit
\* ------------------------------------------------------------------------
HasLimitClause(text) ==
  \E w \in {W_LIMIT, W_FETCH, W_TOP} : Contains(Upper(text), <<" ">> \o w \o <<" ">>)

\* C4: add_limit returns sql unchanged when its upper-cased text contains
\* " LIMIT ", " FETCH " or " TOP ", otherwise the right-trimmed sql followed by
\* " LIMIT <max_rows>"; applied to its own result it returns that result.
C4_AddLimit ==
  called = "add_limit" =>
    /\ HasLimitClause(in_sql) => out_text = in_sql
    /\ ~HasLimitClause(in_sql) =>
         out_text = RStrip(in_sql) \o <<" ","L","I","M","I","T"," ">> \o IntToChars(in_max)
    /\ add_limit(out_text, in_max) = out_text

\* C4 witness: a text with trailing whitespace and a limit word that is not
\* surrounded by spaces got the clause appended
C4_Witness ==
  /\ called = "add_limit"
  /\ in_sql = <<"t","\n","l","i","m","i","t"," ">>
  /\ in_max = 7
  /\ out_text = <<"t","\n","l","i","m","i","t"," ","L","I","M","I","T"," ","7">>

\* ------------------------------------------------------------------------
\* Claims about normalize_table_names
\* ------------------------------------------------------------------------
\* the Identifier nodes _recurse hands to _fix_identifier
RECURSIVE VisitedIdentifiers(_)
VisitedIdentifiers(tokens) ==
  UNION {LET t == tokens[i] IN
         IF t.cls = "Identifier" THEN {t}
         ELSE IF t.cls = "IdentifierList"
           THEN {t.tokens[k] : k \in {j \in DOMAIN t.tokens : t.tokens[j].cls = "Identifier"}}
         ELSE IF t.cls # "Token" THEN VisitedIdentifiers(t.tokens)
         ELSE {} : i \in DOMAIN tokens}

\* every node of the tree n, at every depth
RECURSIVE AllNodes(_)
AllNodes(n) == {n} \cup UNION {AllNodes(n.tokens[i]) : i \in DOMAIN n.tokens}

\* C5: for a non-empty schema, an identifier whose lower-cased real name is
\* the lower-cased name of a schema table is referenced in the returned text
\* by the canonical spelling: "<canonical> AS <alias>" when it has an alias
\* other than the canonical name, "<canonical>" otherwise.
C5_ResultHasCanonicalName ==
  (called = "normalize_table_names" /\ in_schema # <<>>) =>
    \A n \in VisitedIdentifiers(GroupStatement(FirstStatementTokens(in_sql)).tokens) :
      FixApplies(n, in_schema) => Contains(out_text, FixedValue(n, in_schema))

\* C10: every Identifier node of the statement, at every depth, whose
\* lower-cased real name is a schema key has been rewritten to the canonical
\* form, and every other Identifier node is untouched.
C10_EveryDepthRewritten ==
  (called = "normalize_table_names" /\ in_schema # <<>>) =>
    \A n \in AllNodes(out_tree) :
      n.cls = "Identifier" =>
        IF FixApplies(n, in_schema) THEN n.value = FixedValue(n, in_schema) ELSE n.value = Str(n)

\* ------------------------------------------------------------------------
\* Claims about the Run handler and the reply parser
\* ------------------------------------------------------------------------
LimitSuffix == <<" ","L","I","M","I","T"," ","2","0","0">>

\* C1: pd.read_sql_query is reached only with the text that is_select_only
\* accepted and add_limit then returned; when is_select_only rejects the
\* normalized SQL the request ends blocked and nothing is executed.
C1_ExecuteOnlyGatedAndLimited ==
  /\ query_calls > 0 =>
       /\ gate.called
       /\ gate.ret
       /\ executed = add_limit(gate.arg, DefaultMaxRows)
  /\ pc \in {"limit", "execute", "chart"} => (gate.called /\ gate.ret)
  /\ (gate.called /\ ~gate.ret) =>
       (query_calls = 0 /\ executed = <<>> /\ pc = "done" /\ outcome = "blocked")

\* C1 witness: an accepted query has been executed with the limit appended
C1_Witness ==
  /\ query_calls = 1
  /\ gate.ret
  /\ gate.arg = Q_select1
  /\ executed = Q_select1 \o LimitSuffix

\* the positions of ask_llm before the strict decode has been tried
BeforeDecode == {"idle", "ask", "decode"}

\* the positions of the fallback of ask_llm
RepairPcs ==
  {"extract", "quotes", "line_comments", "block_comments", "comma_brace", "comma_bracket",
   "decode_fragment"}

\* the well-formed replies with exactly the keys sql, summary and chart
ExactReplies ==
  {[form |-> f, text |-> Render(f)] :
     f \in {g \in StrictForms : g.sql.present /\ g.summary.present /\ g.chart.present}}

\* C6: a well-formed JSON object with exactly the keys sql, summary and chart
\* is returned by the strict decode with the same three values, and no
\* fallback repair is applied.
C6_StrictRoundTrip ==
  \A r \in ExactReplies :
    (content = r.text /\ pc \notin BeforeDecode) =>
      /\ pc \notin RepairPcs
      /\ fragment = <<>>
      /\ llm_out.t = "obj"
      /\ Len(llm_out.items) = 3
      /\ DictGet(llm_out, K_sql) = r.form.sql.v
      /\ DictGet(llm_out, K_summary) = r.form.summary.v
      /\ DictGet(llm_out, K_chart) = r.form.chart.v

ExampleStrict == <<"{","\"","s","q","l","\"",":"," ","\"","S","E","L","E","C","T"," ","1","\"",","," ","\"","s","u","m","m","a","r","y","\"",":"," ","\"","o","k","\"",","," ","\"","c","h","a","r","t","\"",":"," ","n","u","l","l","}">>

\* C6 witness: the strict decode has returned the fields of a well-formed reply
C6_Witness ==
  /\ content = ExampleStrict
  /\ pc = "fields"
  /\ DictGet(llm_out, K_sql) = JStr(Q_select1)
  /\ DictGet(llm_out, K_chart) = JNull

\* the defective replies and the forms they were written from
DefectReplies == {[form |-> f, text |-> Render(f)] : f \in DefectForms}

\* position (1-based) of the first "{" and of the last "}" of s, 0 when absent
FirstOpen(s) == Find(s, "{") + 1
LastClose(s) == RFind(s, "}") + 1

AfterQuotes ==
  {"line_comments", "block_comments", "comma_brace", "comma_bracket", "decode_fragment"}

ExampleRepaired == <<"H","e","r","e"," ","i","s"," ","t","h","e"," ","a","n","s","w","e","r",":"," ","{","'","s","q","l","'",":"," ","'","S","E","L","E","C","T"," ","1","'",","," ","'","s","u","m","m","a","r","y","'",":"," ","'","o","k","'",",","}">>

Repaired(text) ==
  StripCommaBefore(StripCommaBefore(StripBlockComments(StripLineComments(
    ReplaceQuotes(ExtractFragment(text)), 1), 1), "}", 1), "]", 1)

\* whether ui shows entry a at some place before entry b
ShownBefore(ui, a, b) == \E i, j \in DOMAIN ui : i < j /\ ui[i] = a /\ ui[j] = b

\* C8: when neither decode succeeds, and for every reply without "{" or
\* without "}", the parser fails with an error instead of returning a value,
\* having shown the raw reply first, and no query is executed.
C8_MalformedReplyFails ==
  (/\ content # <<>>
   /\ pc \notin BeforeDecode \cup RepairPcs
   /\ \/ FirstOpen(content) = 0
      \/ LastClose(content) = 0
      \/ (~json_loads(content).ok /\ ~json_loads(Repaired(content)).ok))
  => /\ pc = "done"
     /\ outcome = "error"
     /\ raw_shown = content
     /\ ShownBefore(shown, "text", "error")
     /\ query_calls = 0

\* C9: no failure retries the model call or the query; the session values are
\* those the request started with, and a new request can be started once it
\* has ended; a chart error happens only after the result table has been
\* shown and does not make the request end in an error.
C9_FailuresAreTerminalAndStateless ==
  /\ llm_calls <= 1
  /\ query_calls <= 1
  /\ pc # "idle" => <<engine, schema, connected>> = <<at_start.engine, at_start.schema, at_start.connected>>
  /\ outcome \in {"blocked", "error"} => (pc = "done" /\ ENABLED RunClicked)
  /\ chart_raised =>
       /\ pc = "done"
       /\ ENABLED RunClicked
       /\ ShownBefore(shown, "dataframe", "warning_chart")
       /\ outcome = "ok"
       /\ ~\E i \in DOMAIN shown : shown[i] = "error"

\* C9 witness: the chart failed after the table was shown, the request ended
\* normally and the session is as it was
C9_Witness ==
  /\ chart_raised
  /\ outcome = "ok"
  /\ shown = <<"code", "summary", "dataframe", "subheader", "warning_chart">>
  /\ connected
  /\ engine = "user"

\* C11: the connected flag is true exactly when an engine is stored, so the
\* question tab is offered and a query is executed only while the status
\* shows Connected, and after a failed Connect no stored engine is usable.
C11_ConnectedIffEngineStored ==
  /\ StatusConnected <=> TabOffered
  /\ ENABLED RunClicked => StatusConnected
  /\ query_calls > 0 => StatusConnected

====
